---- MODULE Spec2Model ----
(***************************************************************************)
(* Hybrid Routing Decision Engine of functiongemma-hackathon.              *)
(*                                                                         *)
(* One request (text of the current turn, tool set, force_local flag) is   *)
(* routed to the on-device model or to the cloud model.  The routing code  *)
(* itself (main.py: generate_hybrid) is described by the repository's      *)
(* design notes (SOLUTION.md, the optimisation plan, the architecture      *)
(* plan); the numbers below are the ones those notes give.                 *)
(*                                                                         *)
(* Confidence is a number in [0,1]; it is kept here in hundredths          *)
(* (0..100), so 0.75 is 75 and a margin of 0.05 is 5.                      *)
(***************************************************************************)
EXTENDS Integers, Sequences, FiniteSets, TLC

VARIABLES
    config,       \* thresholds, marker and keyword sets, leniency (read-only per request)
    request,      \* [text, tools, forceLocal], immutable once received
    state,        \* the router's state (START, CLASSIFY, ...)
    consulted,    \* the classifiers consulted so far, in order
    decision,     \* RoutingDecision [path, reason], NoValue until decided
    attempts,     \* the backends invoked so far, in order
    localResult,  \* outcome of the local attempt, NoValue if none yet
    cloudResult,  \* outcome of the cloud attempt, NoValue if none yet
    response,     \* the HybridResponse content or error, NoValue while running
    metrics,      \* Metrics{source, confidence, latency_ms} plus the local audit fields
    conversation_history,  \* the backend's process-wide conversation buffer
    handed,       \* the messages the backend handed to generate_hybrid last
    late,         \* a local result that arrived after its deadline, NoValue if none
    inflight,     \* per client: its request to the backend and what the router got
    proxy,        \* the Next.js chat proxy handler: position, bodies, response
    scrubbed,     \* the last call of scrub(): text, keywords, output
    libraryProxy, \* the Next.js library proxy handlers: position, bodies, response
    page,         \* the chat page: messages, loading, files touched, requests
    setRoot       \* handleSetRootByPath of the chat page: position, requests, result

routerVars == <<config, request, state, consulted, decision, attempts,
                localResult, cloudResult, response, metrics>>

backendVars == <<conversation_history, handed>>

\* Everything that is not the state of the router or of the backend's buffer.
frontVars == <<libraryProxy, page, setRoot>>

outerVars == <<late, inflight, proxy, scrubbed, frontVars>>

vars == <<routerVars, backendVars, outerVars>>

NoValue == [kind |-> "none"]

----------------------------------------------------------------------------
(* Bounds of the model *)

MaxTools == 3        \* tool sets of 1..MaxTools tools
MaxLatency == 1      \* a backend attempt takes 1..MaxLatency time units
ConfWindow == 8      \* confidences from threshold - ConfWindow to threshold + 1
MaxHistory == 4      \* turns kept in conversation_history
MaxClients == 3      \* clients with a request in flight at the same time
MaxTextLen == 3      \* characters of a text given to scrub()
MaxKeywords == 2     \* keywords in the list given to scrub()
MaxEvents == 3       \* chat requests started on the chat page

----------------------------------------------------------------------------
(* Requests *)

ToolName(i) == <<"tool", i>>

\* A name no request offers: what a hallucinated call names.
UnknownTool == <<"tool", 0>>

ToolSets == { { ToolName(i) : i \in 1..n } : n \in 1..MaxTools }

\* n words: tok at position 2, filler words elsewhere.
Filler(n, tok) == [i \in 1..n |-> IF i = 2 THEN tok ELSE "w"]

Texts ==
    { <<"turn", "on", "dnd">>, <<"set", "and", "w">>, <<"summarize", "w">>,
      Filler(45, "and") }
    \cup { Filler(n, tok) : n \in {35, 36, 40, 41}, tok \in {"w", ","} }

\* malformed: the tools of the request whose parameter schema is malformed.
Requests ==
    { [text |-> t, tools |-> ts, forceLocal |-> f, malformed |-> m] :
        t \in Texts, ts \in ToolSets, f \in BOOLEAN,
        m \in { {}, {ToolName(1)} } }

IsWellFormed(req) == req.malformed = {}

----------------------------------------------------------------------------
(* Configuration surface *)

\* Confidence tiers for 1, 2, 3 and 4+ tools, in hundredths.
TierTables ==
    { <<70, 85, 85, 85>>,     \* 1 tool 0.70, multiple tools 0.85
      <<50, 75, 85, 85>>,     \* 1 tool 0.50, 2 tools 0.75, 3+ tools 0.85
      <<50, 75, 78, 78>>,     \* 3+ tools lowered to 0.78
      <<40, 55, 65, 72>> }    \* the reverted low table

\* Strategy 2 cutoffs: [length threshold in words, fan-out threshold in tools].
ComplexityCutoffs == { <<35, 1>>, <<40, 2>> }

CompoundMarkers == {"and", "also", "then", ","}

CognitionKeywords == {"summarize", "draft", "explain"}

\* Leniency margins in hundredths; 0.05 and 0.08 are the documented ones.
LeniencyMargins == {3, 5, 8}

\* Latency accounting on a fallback: local + cloud, or the cloud's time alone.
LatencyModes == {"sum", "cloud_only"}

Configs ==
    [tiers : TierTables,
     cutoffs : ComplexityCutoffs,
     markers : {CompoundMarkers},
     cognition : {CognitionKeywords},
     leniency : BOOLEAN,
     margin : LeniencyMargins,
     latencyMode : LatencyModes]

----------------------------------------------------------------------------
(* Policy components: pure functions *)

WordCount(text) == Len(text)

Contains(text, words) == \E i \in 1..Len(text) : text[i] \in words

\* classifyComplexity with inclusive comparisons (>= for >).
classifyComplexityInclusive(text, toolCount, cfg) ==
    \/ WordCount(text) >= cfg.cutoffs[1]
    \/ /\ Contains(text, cfg.markers)
       /\ toolCount >= cfg.cutoffs[2]

\* 4.1 Complexity Classifier (Strategy 2): too long, or compound with fan-out.
classifyComplexity(text, toolCount, cfg) ==
    \/ WordCount(text) > cfg.cutoffs[1]
    \/ /\ Contains(text, cfg.markers)
       /\ toolCount > cfg.cutoffs[2]

\* 4.2 Domain Classifier (Strategy 1): deep-cognition keywords.
classifyDomain(text, cfg) == Contains(text, cfg.cognition)

\* requiredThreshold with the tiers taken in the opposite order.
requiredThresholdReversed(toolCount, cfg) ==
    IF toolCount = 1 THEN cfg.tiers[4]
    ELSE IF toolCount = 2 THEN cfg.tiers[3]
    ELSE IF toolCount = 3 THEN cfg.tiers[2]
    ELSE cfg.tiers[1]

\* 4.3 Confidence Policy: step function of the number of tools offered.
requiredThreshold(toolCount, cfg) ==
    IF toolCount = 1 THEN cfg.tiers[1]
    ELSE IF toolCount = 2 THEN cfg.tiers[2]
    ELSE IF toolCount = 3 THEN cfg.tiers[3]
    ELSE cfg.tiers[4]

\* "Effective": function_calls non-empty and every name is one of the tools.
IsEffective(calls, tools) ==
    /\ calls # <<>>
    /\ \A i \in 1..Len(calls) : calls[i] \in tools

\* AcceptLocal with an exclusive boundary: confidence must exceed the threshold.
AcceptLocalStrict(result, tools, cfg) ==
    LET threshold == requiredThreshold(Cardinality(tools), cfg) IN
    \/ /\ result.confidence > threshold
       /\ result.calls # <<>>
    \/ /\ cfg.leniency
       /\ IsEffective(result.calls, tools)
       /\ result.confidence >= threshold - cfg.margin

\* AcceptLocal whose leniency takes any non-empty call set for an effective one.
AcceptLocalLenientOnAnyCalls(result, tools, cfg) ==
    LET threshold == requiredThreshold(Cardinality(tools), cfg) IN
    \/ /\ result.confidence >= threshold
       /\ result.calls # <<>>
    \/ /\ cfg.leniency
       /\ result.calls # <<>>
       /\ result.confidence >= threshold - cfg.margin

\* AcceptLocal trusting the confidence alone, without looking at the calls.
AcceptLocalByConfidenceOnly(result, tools, cfg) ==
    LET threshold == requiredThreshold(Cardinality(tools), cfg) IN
    \/ result.confidence >= threshold
    \/ /\ cfg.leniency
       /\ result.confidence >= threshold - cfg.margin

\* Keep the local result: confidence >= threshold and there are calls, or
\* (leniency on) an effective call set within the margin below the threshold.
AcceptLocal(result, tools, cfg) ==
    LET threshold == requiredThreshold(Cardinality(tools), cfg) IN
    \/ /\ result.confidence >= threshold
       /\ result.calls # <<>>
    \/ /\ cfg.leniency
       /\ IsEffective(result.calls, tools)
       /\ result.confidence >= threshold - cfg.margin

----------------------------------------------------------------------------
(* Backends: black boxes, every outcome they can produce *)

CallSets(tools) ==
    LET t == CHOOSE x \in tools : TRUE IN
    { <<>>, <<t>>, <<UnknownTool>>, <<t, UnknownTool>> }

ConfidenceLevels(threshold) ==
    {0, 100} \cup { c \in 0..100 : threshold - ConfWindow <= c /\ c <= threshold + 1 }

LocalOutcomes(req, cfg) ==
    [kind : {"ok"},
     calls : CallSets(req.tools),
     confidence : ConfidenceLevels(requiredThreshold(Cardinality(req.tools), cfg)),
     latency_ms : 1..MaxLatency]
    \cup [kind : {"timeout", "error"}, latency_ms : 1..MaxLatency]

CloudOutcomes(req) ==
    [kind : {"ok"},
     calls : { <<>>, <<CHOOSE x \in req.tools : TRUE>> },
     latency_ms : 1..MaxLatency]
    \cup [kind : {"timeout", "error"}]

----------------------------------------------------------------------------
(* Metrics *)

\* What the local attempt contributed, kept for audit whatever came after.
\* LocalAudit that records a failed local call like a rejected answer.
LocalAuditFailureAsRejection(result) ==
    IF result.kind = "none" THEN NoValue
    ELSE [kind |-> "ok",
          confidence |-> IF result.kind = "ok" THEN result.confidence ELSE 0,
          latency_ms |-> result.latency_ms]

\* What the metrics keep of the local attempt: an answer (accepted or rejected)
\* with its confidence, or a failure with its kind; the latency in both cases.
LocalAudit(result) ==
    IF result.kind = "none" THEN NoValue
    ELSE IF result.kind = "ok"
         THEN [kind |-> "ok", confidence |-> result.confidence,
               latency_ms |-> result.latency_ms]
         ELSE [kind |-> result.kind, latency_ms |-> result.latency_ms]

LocalLatency(result) == IF result.kind = "none" THEN 0 ELSE result.latency_ms

LocalMetrics(result) ==
    [source |-> "local", confidence |-> result.confidence,
     latency_ms |-> result.latency_ms, local |-> LocalAudit(result)]

\* CloudMetrics that keeps the local tag when the local model had answered.
CloudMetricsTaggedByFirstAnswer(local, cloud, cfg) ==
    [source |-> IF local.kind = "ok" THEN "local" ELSE "cloud",
     confidence |-> 100,
     latency_ms |-> IF cfg.latencyMode = "cloud_only"
                    THEN cloud.latency_ms
                    ELSE LocalLatency(local) + cloud.latency_ms,
     local |-> LocalAudit(local)]

\* CloudMetrics that always adds the local time, whatever the accounting mode.
CloudMetricsAlwaysSum(local, cloud, cfg) ==
    [source |-> "cloud", confidence |-> 100,
     latency_ms |-> LocalLatency(local) + cloud.latency_ms,
     local |-> LocalAudit(local)]

\* Cloud results count as confidence 1.0; latency accumulates over both attempts
\* unless the cloud-only accounting mode is configured.
CloudMetrics(local, cloud, cfg) ==
    [source |-> "cloud", confidence |-> 100,
     latency_ms |-> IF cfg.latencyMode = "cloud_only"
                    THEN cloud.latency_ms
                    ELSE LocalLatency(local) + cloud.latency_ms,
     local |-> LocalAudit(local)]

\* FailureMetrics that forgets the local attempt once the request has failed.
FailureMetricsWithoutAudit(local) ==
    [source |-> "none", confidence |-> 0, latency_ms |-> 0, local |-> NoValue]

\* A failed request has no source; what the local attempt measured is kept.
FailureMetrics(local) ==
    [source |-> "none", confidence |-> 0,
     latency_ms |-> LocalLatency(local), local |-> LocalAudit(local)]

----------------------------------------------------------------------------
(* Hybrid Router *)

Init ==
    /\ config \in Configs
    /\ request \in Requests
    /\ state = "START"
    /\ consulted = <<>>
    /\ decision = NoValue
    /\ attempts = <<>>
    /\ localResult = NoValue
    /\ cloudResult = NoValue
    /\ response = NoValue
    /\ metrics = NoValue
    /\ conversation_history = <<>>
    /\ handed = NoValue
    /\ late = NoValue
    /\ inflight = [c \in 1..MaxClients |-> NoValue]
    /\ proxy = [pc |-> "idle", connected |-> TRUE, raw |-> NoValue,
                upstream |-> NoValue, reply |-> NoValue, response |-> NoValue]
    /\ scrubbed = NoValue
    /\ libraryProxy = [pc |-> "idle", handler |-> NoValue, raw |-> NoValue,
                       upstream |-> NoValue, reply |-> NoValue,
                       response |-> NoValue]
    /\ page = [messages |-> <<[role |-> "assistant", content |-> "greeting"]>>,
               loading |-> FALSE, filesTouched |-> <<>>, pending |-> <<>>,
               started |-> 0, last |-> NoValue, successes |-> 0,
               afterClear |-> FALSE]
    /\ setRoot = [pc |-> "idle", path |-> NoValue, issued |-> <<>>,
                  put |-> NoValue, index |-> NoValue,
                  validateResult |-> NoValue]

\* chat() fails with InvalidRequest before the router runs.
Reject ==
    /\ state = "START"
    /\ ~IsWellFormed(request)
    /\ state' = "REJECTED"
    /\ response' = [kind |-> "error", error |-> "InvalidRequest"]
    /\ UNCHANGED <<backendVars, outerVars>>
    /\ UNCHANGED <<config, request, consulted, decision, attempts, localResult,
                   cloudResult, metrics>>

\* Start that routes the request without looking at its tool schemas.
StartUnvalidated ==
    /\ state = "START"
    /\ IF request.forceLocal
       THEN /\ state' = "LOCAL_ATTEMPT"
            /\ decision' = [kind |-> "decision", path |-> "local_then_maybe_cloud",
                            reason |-> "force_local"]
       ELSE /\ state' = "CLASSIFY"
            /\ UNCHANGED decision
    /\ UNCHANGED <<backendVars, outerVars>>
    /\ UNCHANGED <<config, request, consulted, attempts, localResult,
                   cloudResult, response, metrics>>

\* Start without the force-local check: every request is classified.
StartAlwaysClassifies ==
    /\ state = "START"
    /\ state' = "CLASSIFY"
    /\ UNCHANGED <<backendVars, outerVars>>
    /\ UNCHANGED <<config, request, consulted, decision, attempts, localResult,
                   cloudResult, response, metrics>>

\* START -> (ForceLocalCheck) -> {LOCAL_ATTEMPT | CLASSIFY}
Start ==
    /\ state = "START"
    /\ IsWellFormed(request)
    /\ IF request.forceLocal
       THEN /\ state' = "LOCAL_ATTEMPT"
            /\ decision' = [kind |-> "decision", path |-> "local_then_maybe_cloud",
                            reason |-> "force_local"]
       ELSE /\ state' = "CLASSIFY"
            /\ UNCHANGED decision
    /\ UNCHANGED <<backendVars, outerVars>>
    /\ UNCHANGED <<config, request, consulted, attempts, localResult,
                   cloudResult, response, metrics>>

\* Classify that records the classifiers' verdict but tries the local model anyway.
ClassifyThenLocalAnyway ==
    /\ state = "CLASSIFY"
    /\ state' = "LOCAL_ATTEMPT"
    /\ IF classifyComplexity(request.text, Cardinality(request.tools), config)
       THEN /\ consulted' = <<"complexity">>
            /\ decision' = [kind |-> "decision", path |-> "cloud_direct",
                            reason |-> "complexity"]
       ELSE /\ consulted' = <<"complexity", "domain">>
            /\ decision' = [kind |-> "decision",
                            path |-> IF classifyDomain(request.text, config)
                                     THEN "cloud_direct"
                                     ELSE "local_then_maybe_cloud",
                            reason |-> IF classifyDomain(request.text, config)
                                       THEN "domain" ELSE "no_bypass"]
    /\ UNCHANGED <<backendVars, outerVars>>
    /\ UNCHANGED <<config, request, attempts, localResult, cloudResult,
                   response, metrics>>

\* Classify whose Domain Classifier samples its verdict on cognition keywords.
ClassifySampled ==
    /\ state = "CLASSIFY"
    /\ IF classifyComplexity(request.text, Cardinality(request.tools), config)
       THEN /\ consulted' = <<"complexity">>
            /\ state' = "CLOUD_DIRECT"
            /\ decision' = [kind |-> "decision", path |-> "cloud_direct",
                            reason |-> "complexity"]
       ELSE /\ consulted' = <<"complexity", "domain">>
            /\ \E sampled \in BOOLEAN :
                IF classifyDomain(request.text, config) /\ sampled
                THEN /\ state' = "CLOUD_DIRECT"
                     /\ decision' = [kind |-> "decision", path |-> "cloud_direct",
                                     reason |-> "domain"]
                ELSE /\ state' = "LOCAL_ATTEMPT"
                     /\ decision' = [kind |-> "decision",
                                     path |-> "local_then_maybe_cloud",
                                     reason |-> "no_bypass"]
    /\ UNCHANGED <<backendVars, outerVars>>
    /\ UNCHANGED <<config, request, attempts, localResult, cloudResult,
                   response, metrics>>

\* Classify that asks the Domain Classifier first.
ClassifyDomainFirst ==
    /\ state = "CLASSIFY"
    /\ IF classifyDomain(request.text, config)
       THEN /\ consulted' = <<"domain">>
            /\ state' = "CLOUD_DIRECT"
            /\ decision' = [kind |-> "decision", path |-> "cloud_direct",
                            reason |-> "domain"]
       ELSE /\ consulted' = <<"domain", "complexity">>
            /\ IF classifyComplexity(request.text, Cardinality(request.tools), config)
               THEN /\ state' = "CLOUD_DIRECT"
                    /\ decision' = [kind |-> "decision", path |-> "cloud_direct",
                                    reason |-> "complexity"]
               ELSE /\ state' = "LOCAL_ATTEMPT"
                    /\ decision' = [kind |-> "decision",
                                    path |-> "local_then_maybe_cloud",
                                    reason |-> "no_bypass"]
    /\ UNCHANGED <<backendVars, outerVars>>
    /\ UNCHANGED <<config, request, attempts, localResult, cloudResult,
                   response, metrics>>

\* CLASSIFY -> {CLOUD_DIRECT | LOCAL_ATTEMPT}: Complexity then Domain, first true wins.
Classify ==
    /\ state = "CLASSIFY"
    /\ IF classifyComplexity(request.text, Cardinality(request.tools), config)
       THEN /\ consulted' = <<"complexity">>
            /\ state' = "CLOUD_DIRECT"
            /\ decision' = [kind |-> "decision", path |-> "cloud_direct",
                            reason |-> "complexity"]
       ELSE /\ consulted' = <<"complexity", "domain">>
            /\ IF classifyDomain(request.text, config)
               THEN /\ state' = "CLOUD_DIRECT"
                    /\ decision' = [kind |-> "decision", path |-> "cloud_direct",
                                    reason |-> "domain"]
               ELSE /\ state' = "LOCAL_ATTEMPT"
                    /\ decision' = [kind |-> "decision",
                                    path |-> "local_then_maybe_cloud",
                                    reason |-> "no_bypass"]
    /\ UNCHANGED <<backendVars, outerVars>>
    /\ UNCHANGED <<config, request, attempts, localResult, cloudResult,
                   response, metrics>>

\* LocalAttempt returning whatever the local model said when force_local is set.
LocalAttemptForcedKeepsLocal ==
    /\ state = "LOCAL_ATTEMPT"
    /\ \E result \in LocalOutcomes(request, config) :
        /\ attempts' = Append(attempts, "local")
        /\ localResult' = result
        /\ IF /\ result.kind = "ok"
              /\ request.forceLocal \/ AcceptLocal(result, request.tools, config)
           THEN /\ state' = "ACCEPT_LOCAL"
                /\ response' = [kind |-> "content", source |-> "local",
                                calls |-> result.calls]
                /\ metrics' = LocalMetrics(result)
           ELSE /\ state' = "CLOUD_FALLBACK"
                /\ UNCHANGED <<response, metrics>>
    /\ UNCHANGED <<backendVars, outerVars>>
    /\ UNCHANGED <<config, request, consulted, decision, cloudResult>>

\* LocalAttempt that gives up the request when the local backend fails.
LocalAttemptSurfacesFailure ==
    /\ state = "LOCAL_ATTEMPT"
    /\ \E result \in LocalOutcomes(request, config) :
        /\ attempts' = Append(attempts, "local")
        /\ localResult' = result
        /\ IF result.kind = "ok" /\ AcceptLocal(result, request.tools, config)
           THEN /\ state' = "ACCEPT_LOCAL"
                /\ response' = [kind |-> "content", source |-> "local",
                                calls |-> result.calls]
                /\ metrics' = LocalMetrics(result)
           ELSE IF result.kind = "ok"
           THEN /\ state' = "CLOUD_FALLBACK"
                /\ UNCHANGED <<response, metrics>>
           ELSE /\ state' = "FAILED"
                /\ response' = [kind |-> "error", error |-> "BackendUnavailable"]
                /\ metrics' = FailureMetrics(result)
    /\ UNCHANGED <<backendVars, outerVars>>
    /\ UNCHANGED <<config, request, consulted, decision, cloudResult>>

\* LocalAttempt that calls the local backend again after a failed call.
LocalAttemptRetriesOnFailure ==
    /\ state = "LOCAL_ATTEMPT"
    /\ \E result \in LocalOutcomes(request, config) :
        /\ attempts' = Append(attempts, "local")
        /\ localResult' = result
        /\ IF result.kind = "ok" /\ AcceptLocal(result, request.tools, config)
           THEN /\ state' = "ACCEPT_LOCAL"
                /\ response' = [kind |-> "content", source |-> "local",
                                calls |-> result.calls]
                /\ metrics' = LocalMetrics(result)
           ELSE /\ state' = IF result.kind = "ok" \/ Len(attempts) >= 1
                            THEN "CLOUD_FALLBACK" ELSE "LOCAL_ATTEMPT"
                /\ UNCHANGED <<response, metrics>>
    /\ UNCHANGED <<backendVars, outerVars>>
    /\ UNCHANGED <<config, request, consulted, decision, cloudResult>>

\* LocalAttempt without a deadline: a backend that never answers is waited for.
LocalAttemptWithoutDeadline ==
    /\ state = "LOCAL_ATTEMPT"
    /\ localResult.kind # "pending"
    /\ \E result \in LocalOutcomes(request, config) :
        /\ attempts' = Append(attempts, "local")
        /\ IF result.kind = "timeout"
           THEN /\ localResult' = [kind |-> "pending"]
                /\ UNCHANGED <<state, response, metrics>>
           ELSE /\ localResult' = result
                /\ IF result.kind = "ok" /\ AcceptLocal(result, request.tools, config)
                   THEN /\ state' = "ACCEPT_LOCAL"
                        /\ response' = [kind |-> "content", source |-> "local",
                                        calls |-> result.calls]
                        /\ metrics' = LocalMetrics(result)
                   ELSE /\ state' = "CLOUD_FALLBACK"
                        /\ UNCHANGED <<response, metrics>>
    /\ UNCHANGED <<backendVars, outerVars>>
    /\ UNCHANGED <<config, request, consulted, decision, cloudResult>>

\* LOCAL_ATTEMPT -> {ACCEPT_LOCAL | CLOUD_FALLBACK}
LocalAttempt ==
    /\ state = "LOCAL_ATTEMPT"
    /\ \E result \in LocalOutcomes(request, config) :
        /\ attempts' = Append(attempts, "local")
        /\ localResult' = result
        /\ IF result.kind = "ok" /\ AcceptLocal(result, request.tools, config)
           THEN /\ state' = "ACCEPT_LOCAL"
                /\ response' = [kind |-> "content", source |-> "local",
                                calls |-> result.calls]
                /\ metrics' = LocalMetrics(result)
           ELSE /\ state' = "CLOUD_FALLBACK"
                /\ UNCHANGED <<response, metrics>>
    /\ UNCHANGED <<backendVars, outerVars>>
    /\ UNCHANGED <<config, request, consulted, decision, cloudResult>>

\* AttemptCloud that answers with the rejected local result when the cloud fails.
AttemptCloudFallsBackToLocal ==
    \E result \in CloudOutcomes(request) :
        /\ attempts' = Append(attempts, "cloud")
        /\ cloudResult' = result
        /\ IF result.kind = "ok"
           THEN /\ state' = "ACCEPT_CLOUD"
                /\ response' = [kind |-> "content", source |-> "cloud",
                                calls |-> result.calls]
                /\ metrics' = CloudMetrics(localResult, result, config)
           ELSE IF localResult.kind = "ok"
           THEN /\ state' = "ACCEPT_LOCAL"
                /\ response' = [kind |-> "content", source |-> "local",
                                calls |-> localResult.calls]
                /\ metrics' = LocalMetrics(localResult)
           ELSE /\ state' = "FAILED"
                /\ response' = [kind |-> "error", error |-> "BackendUnavailable"]
                /\ metrics' = FailureMetrics(localResult)

\* AttemptCloud that holds the cloud result to the rule for local results.
AttemptCloudAppliesPolicy ==
    \E result \in CloudOutcomes(request) :
        /\ attempts' = Append(attempts, "cloud")
        /\ cloudResult' = result
        /\ IF result.kind = "ok" /\ result.calls # <<>>
           THEN /\ state' = "ACCEPT_CLOUD"
                /\ response' = [kind |-> "content", source |-> "cloud",
                                calls |-> result.calls]
                /\ metrics' = CloudMetrics(localResult, result, config)
           ELSE /\ state' = "FAILED"
                /\ response' = [kind |-> "error", error |-> "BackendUnavailable"]
                /\ metrics' = FailureMetrics(localResult)

\* The cloud attempt and what it leaves: shared by both cloud states.
AttemptCloud ==
    \E result \in CloudOutcomes(request) :
        /\ attempts' = Append(attempts, "cloud")
        /\ cloudResult' = result
        /\ IF result.kind = "ok"
           THEN /\ state' = "ACCEPT_CLOUD"
                /\ response' = [kind |-> "content", source |-> "cloud",
                                calls |-> result.calls]
                /\ metrics' = CloudMetrics(localResult, result, config)
           ELSE /\ state' = "FAILED"
                /\ response' = [kind |-> "error", error |-> "BackendUnavailable"]
                /\ metrics' = FailureMetrics(localResult)

\* CloudDirect that tries the local backend when the cloud fails.
CloudDirectFallsBackToLocal ==
    /\ state = "CLOUD_DIRECT"
    /\ \E result \in CloudOutcomes(request) :
        /\ attempts' = Append(attempts, "cloud")
        /\ cloudResult' = result
        /\ IF result.kind = "ok"
           THEN /\ state' = "ACCEPT_CLOUD"
                /\ response' = [kind |-> "content", source |-> "cloud",
                                calls |-> result.calls]
                /\ metrics' = CloudMetrics(localResult, result, config)
           ELSE /\ state' = "LOCAL_ATTEMPT"
                /\ UNCHANGED <<response, metrics>>
    /\ UNCHANGED <<backendVars, outerVars>>
    /\ UNCHANGED <<config, request, consulted, decision, localResult>>

\* CLOUD_DIRECT -> {ACCEPT_CLOUD | FAILED}
CloudDirect ==
    /\ state = "CLOUD_DIRECT"
    /\ AttemptCloud
    /\ UNCHANGED <<backendVars, outerVars>>
    /\ UNCHANGED <<config, request, consulted, decision, localResult>>

\* CLOUD_FALLBACK -> {ACCEPT_CLOUD | FAILED}
CloudFallback ==
    /\ state = "CLOUD_FALLBACK"
    /\ AttemptCloud
    /\ UNCHANGED <<backendVars, outerVars>>
    /\ UNCHANGED <<config, request, consulted, decision, localResult>>

Next ==
    \/ Reject
    \/ Start
    \/ Classify
    \/ LocalAttempt
    \/ CloudDirect
    \/ CloudFallback

Spec == Init /\ [][Next]_vars

\* The router runs to completion when scheduled; a backend call returns by its
\* deadline at the latest (a timeout is one of its outcomes).
LiveConfigs ==
    { c \in Configs : /\ c.tiers = <<70, 85, 85, 85>>
                      /\ c.cutoffs = <<35, 1>>
                      /\ c.margin = 8
                      /\ c.latencyMode = "sum" }

InitLive == Init /\ config \in LiveConfigs

SpecLive == InitLive /\ [][Next]_vars /\ WF_vars(Next)

----------------------------------------------------------------------------
(* Backend /api/chat: the conversation buffer around the router *)

Messages == {"a", "b", "c"}

\* POST /api/chat {message}: append to conversation_history, call generate_hybrid
\* with the whole buffer.
ChatMessage(message) ==
    /\ Len(conversation_history) < MaxHistory
    /\ conversation_history' =
           Append(conversation_history, [role |-> "user", content |-> message])
    /\ handed' = [kind |-> "messages", current |-> message,
                  messages |-> conversation_history']
    /\ UNCHANGED <<routerVars, outerVars>>

\* POST /api/chat {message: "clear"}: the conversation starts over.
ChatClear ==
    /\ conversation_history' = <<>>
    /\ handed' = NoValue
    /\ UNCHANGED <<routerVars, outerVars>>

InitBackend ==
    /\ Init
    /\ config = CHOOSE c \in Configs : TRUE
    /\ request = CHOOSE r \in Requests : TRUE

NextBackend ==
    \/ \E message \in Messages : ChatMessage(message)
    \/ ChatClear

SpecBackend == InitBackend /\ [][NextBackend]_vars

----------------------------------------------------------------------------
(* Late results: a local call abandoned at its deadline may still answer. *)

\* The results an abandoned local call can still deliver.
LateResults(req, cfg) == { r \in LocalOutcomes(req, cfg) : r.kind = "ok" }

\* A late result that is taken as the answer if the request has not ended.
LateLocalResultTakenIfFirst ==
    /\ localResult.kind = "timeout"
    /\ late = NoValue
    /\ \E result \in LateResults(request, config) :
        /\ late' = result
        /\ IF state = "CLOUD_FALLBACK" /\ AcceptLocal(result, request.tools, config)
           THEN /\ state' = "ACCEPT_LOCAL"
                /\ response' = [kind |-> "content", source |-> "local",
                                calls |-> result.calls]
                /\ metrics' = LocalMetrics(result)
           ELSE UNCHANGED <<state, response, metrics>>
    /\ UNCHANGED <<config, request, consulted, decision, attempts, localResult,
                   cloudResult>>
    /\ UNCHANGED <<backendVars, inflight, proxy, scrubbed, frontVars>>

\* The late result of the abandoned local call arrives and is discarded.
LateLocalResult ==
    /\ localResult.kind = "timeout"
    /\ late = NoValue
    /\ \E result \in LateResults(request, config) : late' = result
    /\ UNCHANGED <<routerVars, backendVars, inflight, proxy, scrubbed, frontVars>>

NextAsync ==
    \/ Next
    \/ LateLocalResult

SpecAsync == InitLive /\ [][NextAsync]_vars

----------------------------------------------------------------------------
(* Requests of several clients at the backend's one conversation buffer *)

Clients == 1..MaxClients

\* Client c posts {message}; the request is in flight.
Arrive(c, message) ==
    /\ inflight[c] = NoValue
    /\ inflight' = [inflight EXCEPT ![c] =
                       [kind |-> "received", message |-> message]]
    /\ UNCHANGED <<routerVars, backendVars, late, proxy, scrubbed, frontVars>>

\* The backend handles the request of client c: it appends the message to
\* conversation_history and calls generate_hybrid with the whole buffer.
Handle(c) ==
    /\ inflight[c].kind = "received"
    /\ conversation_history' =
           Append(conversation_history,
                  [role |-> "user", content |-> inflight[c].message])
    /\ inflight' = [inflight EXCEPT ![c] =
                       [kind |-> "routed", message |-> inflight[c].message,
                        messages |-> conversation_history']]
    /\ UNCHANGED <<routerVars, handed, late, proxy, scrubbed, frontVars>>

NextClients ==
    \/ \E c \in Clients, message \in Messages : Arrive(c, message)
    \/ \E c \in Clients : Handle(c)

SpecClients == InitBackend /\ [][NextClients]_vars

----------------------------------------------------------------------------
(* The chat proxy: frontend/app/api/chat/route.ts, POST *)

NullJson == [kind |-> "null"]

EmptyObject == [kind |-> "object"]

\* Bodies a client can post: text that is no JSON, JSON null, {message, force_local}.
RawBodies ==
    { [kind |-> "garbage"], [kind |-> "json", value |-> NullJson] }
    \cup { [kind |-> "json",
            value |-> [kind |-> "object", message |-> m, force_local |-> f]] :
            m \in Messages, f \in BOOLEAN }

\* What the backend can answer with: JSON bodies it sends, with or without metrics.
BackendBodies ==
    { [response |-> "answer",
       metrics |-> [source |-> "cloud", confidence |-> 100, latency_ms |-> 1]],
      [detail |-> "error"] }

\* await fetch(...) and await res.json(): the fetch rejects, or it resolves to a
\* reply whose body is JSON or not.  A 204 reply has no body.
FetchOutcomes ==
    { [kind |-> "network_error"] }
    \cup { [kind |-> "reply", status |-> st, json |-> FALSE] : st \in {200, 204, 500} }
    \cup { [kind |-> "reply", status |-> st, json |-> TRUE, data |-> d] :
            st \in {200, 422, 500}, d \in BackendBodies }

InvalidJsonResponse ==
    [status |-> 400, body |-> [response |-> "Invalid JSON body", metrics |-> "null"]]

BackendUnreachableResponse ==
    [status |-> 502,
     body |-> [response |-> "Backend unreachable", metrics |-> "null",
               files_touched |-> <<>>]]

\* ProxyPost that forwards {} when the body cannot be parsed.
ProxyPostForwardsUnparsed(raw) ==
    /\ proxy.pc = "idle"
    /\ proxy' = [pc |-> "fetching", connected |-> TRUE, raw |-> raw,
                 upstream |-> IF raw.kind = "garbage" \/ raw.value = NullJson
                              THEN EmptyObject ELSE raw.value,
                 reply |-> NoValue, response |-> NoValue]
    /\ UNCHANGED <<routerVars, backendVars, late, inflight, scrubbed, frontVars>>

\* Lines 4-18: request.json(); on a parse error answer 400, else start the fetch
\* with JSON.stringify(body ?? {}).
ProxyPost(raw) ==
    /\ proxy.pc = "idle"
    /\ IF raw.kind = "garbage"
       THEN proxy' = [pc |-> "done", connected |-> TRUE, raw |-> raw,
                      upstream |-> NoValue, reply |-> NoValue,
                      response |-> InvalidJsonResponse]
       ELSE proxy' = [pc |-> "fetching", connected |-> TRUE, raw |-> raw,
                      upstream |-> IF raw.value = NullJson
                                   THEN EmptyObject ELSE raw.value,
                      reply |-> NoValue, response |-> NoValue]
    /\ UNCHANGED <<routerVars, backendVars, late, inflight, scrubbed, frontVars>>

\* ProxyReply that answers 200 whatever the backend's status was.
ProxyReplyMasksStatus ==
    /\ proxy.pc = "fetching"
    /\ \E outcome \in FetchOutcomes :
        proxy' = [proxy EXCEPT
                    !.pc = "done",
                    !.reply = outcome,
                    !.response =
                        IF outcome.kind = "network_error" \/ ~outcome.json
                        THEN BackendUnreachableResponse
                        ELSE [status |-> 200, body |-> outcome.data]]
    /\ UNCHANGED <<routerVars, backendVars, late, inflight, scrubbed, frontVars>>

\* Lines 19-26: the fetch settles; res.json() and Response.json(data, status), or
\* the catch branch with 502.
ProxyReply ==
    /\ proxy.pc = "fetching"
    /\ \E outcome \in FetchOutcomes :
        proxy' = [proxy EXCEPT
                    !.pc = "done",
                    !.reply = outcome,
                    !.response =
                        IF outcome.kind = "network_error" \/ ~outcome.json
                        THEN BackendUnreachableResponse
                        ELSE [status |-> outcome.status, body |-> outcome.data]]
    /\ UNCHANGED <<routerVars, backendVars, late, inflight, scrubbed, frontVars>>

\* The client goes away while the proxy waits for the backend.  The handler
\* does not look at request.signal and gives fetch no signal: nothing else changes.
ClientDisconnect ==
    /\ proxy.pc = "fetching"
    /\ proxy.connected
    /\ proxy' = [proxy EXCEPT !.connected = FALSE]
    /\ UNCHANGED <<routerVars, backendVars, late, inflight, scrubbed, frontVars>>

NextProxy ==
    \/ \E raw \in RawBodies : ProxyPost(raw)
    \/ ProxyReply
    \/ ClientDisconnect

SpecProxy == InitBackend /\ [][NextProxy]_vars

----------------------------------------------------------------------------
(* The privacy scrubber: scrubber.py, scrub(text, keywords) *)

\* Texts are sequences of characters.
Alphabet == {"a", "n", "d", "D", " "}

Redacted == <<"[", "R", "E", "D", "A", "C", "T", "E", "D", "]">>

\* re.IGNORECASE: characters are compared in lower case.
Lower(c) ==
    CASE c = "A" -> "a"
      [] c = "C" -> "c"
      [] c = "D" -> "d"
      [] c = "E" -> "e"
      [] c = "R" -> "r"
      [] c = "T" -> "t"
      [] OTHER -> c

SeqsUpTo(n, S) == UNION { [1..m -> S] : m \in 0..n }

ScrubTexts == SeqsUpTo(MaxTextLen, Alphabet)

Keywords == { <<"a", "n">>, <<"D">>, <<"n", "d">>, <<" ">>, <<>> }

KeywordLists == SeqsUpTo(MaxKeywords, Keywords)

\* not k.strip()
IsBlank(k) == \A i \in 1..Len(k) : k[i] = " "

\* The pattern re.escape(k) with IGNORECASE matches text at position i.
MatchesAt(text, k, i) ==
    /\ i + Len(k) - 1 <= Len(text)
    /\ \A j \in 1..Len(k) : Lower(text[i + j - 1]) = Lower(k[j])

RECURSIVE SubFrom(_, _, _)
\* pattern.sub("[REDACTED]", text) from position i on: leftmost matches, not
\* overlapping.
SubFrom(text, k, i) ==
    IF i > Len(text) THEN <<>>
    ELSE IF MatchesAt(text, k, i)
         THEN Redacted \o SubFrom(text, k, i + Len(k))
         ELSE <<text[i]>> \o SubFrom(text, k, i + 1)

RECURSIVE ScrubWith(_, _)
\* The loop over the keyword list: each keyword works on the output so far.
ScrubWith(out, kw) ==
    IF kw = <<>> THEN out
    ELSE ScrubWith(IF IsBlank(Head(kw)) THEN out ELSE SubFrom(out, Head(kw), 1),
                   Tail(kw))

scrub(text, keywords) == IF text = <<>> THEN text ELSE ScrubWith(text, keywords)

Scrub(text, keywords) ==
    /\ scrubbed = NoValue
    /\ scrubbed' = [kind |-> "scrubbed", text |-> text, keywords |-> keywords,
                    out |-> scrub(text, keywords)]
    /\ UNCHANGED <<routerVars, backendVars, late, inflight, proxy, frontVars>>

NextScrub == \E text \in ScrubTexts, keywords \in KeywordLists : Scrub(text, keywords)

SpecScrub == InitBackend /\ [][NextScrub]_vars

----------------------------------------------------------------------------
(* The library proxies: api/library/root (GET, PUT) and api/library/validate *)
(* (POST)                                                                    *)

LibraryHandlers == {"GET_root", "PUT_root", "POST_validate"}

\* Bodies posted to the library proxies: no JSON, JSON null, {root} or {path}.
LibraryBodies ==
    { [kind |-> "garbage"], [kind |-> "json", value |-> NullJson] }
    \cup { [kind |-> "json", value |-> [kind |-> "object", path |-> p]] :
            p \in {"dir", "file", "missing", ""} }

\* The 400 answers: {error} for PUT root, {ok: false, error, path: ""} for validate.
LibraryInvalidJson(handler) ==
    IF handler = "PUT_root"
    THEN [status |-> 400, body |-> [error |-> "Invalid JSON body"]]
    ELSE [status |-> 400,
          body |-> [ok |-> FALSE, error |-> "Invalid JSON body", path |-> ""]]

\* GET: the fetch starts at once.  PUT and POST: request.json(); on a parse
\* error answer 400, else start the fetch with JSON.stringify(body ?? {}).
LibraryRequest(handler, raw) ==
    /\ libraryProxy.pc = "idle"
    /\ IF handler = "GET_root"
       THEN libraryProxy' = [pc |-> "fetching", handler |-> handler,
                             raw |-> NoValue, upstream |-> EmptyObject,
                             reply |-> NoValue, response |-> NoValue]
       ELSE IF raw.kind = "garbage"
       THEN libraryProxy' = [pc |-> "done", handler |-> handler, raw |-> raw,
                             upstream |-> NoValue, reply |-> NoValue,
                             response |-> LibraryInvalidJson(handler)]
       ELSE libraryProxy' = [pc |-> "fetching", handler |-> handler, raw |-> raw,
                             upstream |-> IF raw.value = NullJson
                                          THEN EmptyObject ELSE raw.value,
                             reply |-> NoValue, response |-> NoValue]
    /\ UNCHANGED <<routerVars, backendVars, late, inflight, proxy, scrubbed,
                   page, setRoot>>

\* The fetch settles.  There is no try around fetch and res.json(): a rejected
\* fetch or a body that is not JSON makes the handler throw; else it returns
\* Response.json(data, {status: res.status}).
LibraryReply ==
    /\ libraryProxy.pc = "fetching"
    /\ \E outcome \in FetchOutcomes :
        libraryProxy' =
            IF outcome.kind = "network_error" \/ ~outcome.json
            THEN [libraryProxy EXCEPT !.pc = "threw", !.reply = outcome]
            ELSE [libraryProxy EXCEPT
                    !.pc = "done",
                    !.reply = outcome,
                    !.response = [status |-> outcome.status,
                                  body |-> outcome.data]]
    /\ UNCHANGED <<routerVars, backendVars, late, inflight, proxy, scrubbed,
                   page, setRoot>>

NextLibrary ==
    \/ \E handler \in LibraryHandlers, raw \in LibraryBodies :
           LibraryRequest(handler, raw)
    \/ LibraryReply

SpecLibrary == InitBackend /\ [][NextLibrary]_vars

----------------------------------------------------------------------------
(* The chat page: app/chat/page.tsx, handleSubmit and handleClear *)

ClearWord == <<"c", "l", "e", "a", "r">>

\* What the user can have in the input box when the form is submitted.
PageInputs ==
    { <<>>, <<" ">>, <<" ", "h", "i", " ">>, ClearWord,
      <<"C", "l", "e", "a", "r">> }

RECURSIVE TrimLeft(_)
TrimLeft(text) ==
    IF text # <<>> /\ Head(text) = " " THEN TrimLeft(Tail(text)) ELSE text

RECURSIVE TrimRight(_)
TrimRight(text) ==
    IF text # <<>> /\ text[Len(text)] = " "
    THEN TrimRight(SubSeq(text, 1, Len(text) - 1))
    ELSE text

\* input.trim()
Trim(text) == TrimRight(TrimLeft(text))

\* text.toLowerCase()
LowerText(text) == [i \in 1..Len(text) |-> Lower(text[i])]

\* The comparison of line 200 without toLowerCase().
IsClearTextExact(text) == text = ClearWord

\* text.toLowerCase() === "clear"
IsClearText(text) == LowerText(text) = ClearWord

\* A request index that counts from 0.
NextRequestIndexFromZero(prev) == Len(prev)

\* requestIndex: prev.length + 1
NextRequestIndex(prev) == Len(prev) + 1

\* JSON bodies the page can get from /api/chat.
PageBodies ==
    { [response |-> "answer", files_touched |-> <<"file">>],
      [response |-> "answer"],
      [error |-> "failed"] }

\* The fetch rejects, or it resolves with a status and a body that is JSON or not.
PageOutcomes ==
    { [kind |-> "network_error"] }
    \cup { [kind |-> "reply", status |-> st, json |-> FALSE] : st \in {200, 500} }
    \cup { [kind |-> "reply", status |-> st, json |-> TRUE, data |-> d] :
            st \in {200, 500}, d \in PageBodies }

\* data.f ?? default
FieldOr(data, f, default) == IF f \in DOMAIN data THEN data[f] ELSE default

Assistant(content) == [role |-> "assistant", content |-> content]

ClearedMessages == <<Assistant("Conversation cleared. How can I help you?")>>

\* res.ok
IsOk(outcome) == outcome.status \in 200..299

\* The controls of the page: disabled={loading}, disabled={loading || !input.trim()}.
ClearDisabled == page.loading

InputDisabled == page.loading

SendDisabled(input) == page.loading \/ Trim(input) = <<>>

\* handleSubmit without the check of loading.
HandleSubmitIgnoresLoading(input) ==
    LET text == Trim(input) IN
    /\ page.started < MaxEvents
    /\ IF text = <<>>
       THEN UNCHANGED page
       ELSE page' = [page EXCEPT
                       !.messages = Append(@, [role |-> "user", content |-> text]),
                       !.loading = TRUE,
                       !.pending = Append(@, [kind |-> "submit", text |-> text]),
                       !.started = @ + 1,
                       !.last = NoValue]
    /\ UNCHANGED <<routerVars, backendVars, late, inflight, proxy, scrubbed,
                   libraryProxy, setRoot>>

\* handleSubmit up to the fetch (lines 183-197): nothing happens on an empty
\* text or while loading; else the user message is shown and the request sent.
HandleSubmit(input) ==
    LET text == Trim(input) IN
    /\ page.started < MaxEvents
    /\ IF text = <<>> \/ page.loading
       THEN UNCHANGED page
       ELSE page' = [page EXCEPT
                       !.messages = Append(@, [role |-> "user", content |-> text]),
                       !.loading = TRUE,
                       !.pending = Append(@, [kind |-> "submit", text |-> text]),
                       !.started = @ + 1,
                       !.last = NoValue]
    /\ UNCHANGED <<routerVars, backendVars, late, inflight, proxy, scrubbed,
                   libraryProxy, setRoot>>

\* handleClear up to the fetch (lines 225-232); the button is disabled while loading.
HandleClear ==
    /\ page.started < MaxEvents
    /\ ~ClearDisabled
    /\ page' = [page EXCEPT
                   !.loading = TRUE,
                   !.pending = Append(@, [kind |-> "clear", text |-> ClearWord]),
                   !.started = @ + 1,
                   !.last = NoValue]
    /\ UNCHANGED <<routerVars, backendVars, late, inflight, proxy, scrubbed,
                   libraryProxy, setRoot>>

\* The messages after the request has settled (lines 198-219, 233-239).
MessagesAfter(req, outcome) ==
    IF req.kind = "clear"
    THEN IF outcome.kind = "network_error"
         THEN Append(page.messages, Assistant("Could not clear."))
         ELSE ClearedMessages
    ELSE IF outcome.kind = "network_error" \/ ~outcome.json
         THEN Append(page.messages,
                     Assistant("Sorry, something went wrong. Please try again."))
    ELSE IF IsClearText(req.text) THEN ClearedMessages
    ELSE IF ~IsOk(outcome)
         THEN Append(page.messages,
                     Assistant(FieldOr(outcome.data, "response",
                                       FieldOr(outcome.data, "error",
                                               "Request failed."))))
    ELSE Append(page.messages,
                Assistant(FieldOr(outcome.data, "response", "undefined")))

\* Whether the request ends with the conversation shown as cleared.
Clears(req, outcome) ==
    IF req.kind = "clear"
    THEN outcome.kind # "network_error"
    ELSE outcome.kind = "reply" /\ outcome.json /\ IsClearText(req.text)

\* Whether the request ends in the branch of a successful answer (lines 209-214).
Succeeds(req, outcome) ==
    /\ req.kind = "submit"
    /\ outcome.kind = "reply"
    /\ outcome.json
    /\ ~IsClearText(req.text)
    /\ IsOk(outcome)

\* filesTouchedByRequest after the request has settled (lines 205, 212-213, 237).
FilesAfter(req, outcome) ==
    IF Clears(req, outcome) THEN <<>>
    ELSE IF Succeeds(req, outcome)
         THEN Append(page.filesTouched,
                     [requestIndex |-> NextRequestIndex(page.filesTouched),
                      files |-> FieldOr(outcome.data, "files_touched", <<>>)])
    ELSE page.filesTouched

\* The request of position i settles: the rest of the handler runs, and
\* finally setLoading(false).  A reply of status 200 comes from the backend
\* having handled the message: "clear" empties conversation_history, any
\* other message is appended and the buffer handed to generate_hybrid.  How
\* the backend takes "Clear" in another case is not known: either way.
Settle(i, outcome) ==
    /\ i \in 1..Len(page.pending)
    /\ LET req == page.pending[i]
           handled == outcome.kind = "reply" /\ outcome.status = 200
       IN \E reset \in IF ~handled THEN {FALSE}
                       ELSE IF req.text = ClearWord THEN {TRUE}
                       ELSE IF IsClearText(req.text) THEN BOOLEAN
                       ELSE {FALSE} :
            /\ page' = [page EXCEPT
                          !.messages = MessagesAfter(req, outcome),
                          !.filesTouched = FilesAfter(req, outcome),
                          !.loading = FALSE,
                          !.pending = SubSeq(@, 1, i - 1)
                                        \o SubSeq(@, i + 1, Len(@)),
                          !.last = [kind |-> req.kind, text |-> req.text,
                                    outcome |-> outcome,
                                    before |-> page.messages],
                          !.successes =
                              IF Clears(req, outcome) THEN 0
                              ELSE IF Succeeds(req, outcome) THEN @ + 1 ELSE @,
                          !.afterClear = IF handled THEN reset ELSE @]
            /\ IF ~handled
               THEN UNCHANGED backendVars
               ELSE IF reset
               THEN /\ conversation_history' = <<>>
                    /\ handed' = NoValue
               ELSE /\ conversation_history' =
                           Append(conversation_history,
                                  [role |-> "user", content |-> req.text])
                    /\ handed' = [kind |-> "messages", current |-> req.text,
                                  messages |-> conversation_history']
    /\ UNCHANGED <<routerVars, late, inflight, proxy, scrubbed, libraryProxy,
                   setRoot>>

NextPage ==
    \/ \E input \in PageInputs : HandleSubmit(input)
    \/ HandleClear
    \/ \E i \in 1..MaxEvents, outcome \in PageOutcomes : Settle(i, outcome)

SpecPage == InitBackend /\ [][NextPage]_vars

----------------------------------------------------------------------------
(* The chat page: handleSetRootByPath *)

PutRequest == "PUT /api/library/root"

IndexRequest == "POST /api/library/index"

StatusRequest == "GET /api/library/status"

SetRootPaths == {"dir", "missing"}

\* JSON bodies of the library endpoints; JSON null among them.
SetRootBodies ==
    { [root |-> "dir"], [ok |-> TRUE, root |-> "dir"],
      [ok |-> FALSE, error |-> "Not a directory"], NullJson }

SetRootOutcomes ==
    { [kind |-> "network_error"] }
    \cup { [kind |-> "reply", status |-> st, json |-> FALSE] : st \in {200, 400} }
    \cup { [kind |-> "reply", status |-> st, json |-> TRUE, data |-> d] :
            st \in {200, 400}, d \in SetRootBodies }

\* The catch branch of line 142.
SetRootCaught == [ok |-> FALSE, error |-> "Request failed"]

\* await res.json() and the first read of a field of the body throw.
Unreadable(outcome) ==
    outcome.kind = "network_error" \/ ~outcome.json \/ outcome.data = NullJson

\* The test of line 130 without the body's ok field.
PutFailedByStatusOnly(outcome, putData) == ~IsOk(outcome)

\* !putRes.ok || putData.ok === false
PutFailed(outcome, putData) ==
    ~IsOk(outcome) \/ FieldOr(putData, "ok", TRUE) = FALSE

\* Lines 119-125: setValidateResult(null) and the PUT.
SetRootStart(path) ==
    /\ setRoot.pc = "idle"
    /\ setRoot' = [pc |-> "put", path |-> path, issued |-> <<PutRequest>>,
                   put |-> NoValue, index |-> NoValue,
                   validateResult |-> NoValue]
    /\ UNCHANGED <<routerVars, backendVars, late, inflight, proxy, scrubbed,
                   libraryProxy, page>>

\* Lines 126-136: the PUT settles; putRes.json().catch(() => ({})).
PutSettles(outcome) ==
    /\ setRoot.pc = "put"
    /\ LET putData == IF outcome.kind = "reply" /\ outcome.json
                      THEN outcome.data ELSE EmptyObject
       IN setRoot' =
            IF outcome.kind = "network_error" \/ putData = NullJson
            THEN [setRoot EXCEPT !.pc = "done", !.put = outcome,
                                 !.validateResult = SetRootCaught]
            ELSE IF PutFailed(outcome, putData)
            THEN [setRoot EXCEPT
                    !.pc = "done", !.put = outcome,
                    !.validateResult =
                        [ok |-> FALSE,
                         error |-> FieldOr(putData, "error", "Set path failed")]]
            ELSE [setRoot EXCEPT
                    !.pc = "index", !.put = outcome,
                    !.issued = Append(@, IndexRequest),
                    !.validateResult =
                        [ok |-> TRUE, path |-> FieldOr(putData, "root", "")]]
    /\ UNCHANGED <<routerVars, backendVars, late, inflight, proxy, scrubbed,
                   libraryProxy, page>>

\* Lines 137-139: the index request settles; then the status request.
IndexSettles(outcome) ==
    /\ setRoot.pc = "index"
    /\ setRoot' =
            IF Unreadable(outcome)
            THEN [setRoot EXCEPT !.pc = "done", !.index = outcome,
                                 !.validateResult = SetRootCaught]
            ELSE [setRoot EXCEPT !.pc = "status", !.index = outcome,
                                 !.issued = Append(@, StatusRequest)]
    /\ UNCHANGED <<routerVars, backendVars, late, inflight, proxy, scrubbed,
                   libraryProxy, page>>

\* Lines 140-143: the status request settles.
StatusSettles(outcome) ==
    /\ setRoot.pc = "status"
    /\ setRoot' =
            IF outcome.kind = "network_error" \/ ~outcome.json
            THEN [setRoot EXCEPT !.pc = "done", !.validateResult = SetRootCaught]
            ELSE [setRoot EXCEPT !.pc = "done"]
    /\ UNCHANGED <<routerVars, backendVars, late, inflight, proxy, scrubbed,
                   libraryProxy, page>>

NextSetRoot ==
    \/ \E path \in SetRootPaths : SetRootStart(path)
    \/ \E outcome \in SetRootOutcomes : PutSettles(outcome)
    \/ \E outcome \in SetRootOutcomes : IndexSettles(outcome)
    \/ \E outcome \in SetRootOutcomes : StatusSettles(outcome)

SpecSetRoot == InitBackend /\ [][NextSetRoot]_vars

----------------------------------------------------------------------------
(* Type correctness *)

TypeOK ==
    /\ config \in Configs
    /\ request \in Requests
    /\ state \in {"START", "CLASSIFY", "LOCAL_ATTEMPT", "CLOUD_DIRECT",
                  "CLOUD_FALLBACK", "ACCEPT_LOCAL", "ACCEPT_CLOUD", "FAILED",
                  "REJECTED"}

----------------------------------------------------------------------------
(* Shorthands used by the properties *)

ToolCount == Cardinality(request.tools)

Threshold == requiredThreshold(ToolCount, config)

LocalAnswered == localResult.kind = "ok"

\* The leniency rule as configured for this request.
WithinLeniency ==
    /\ config.leniency
    /\ IsEffective(localResult.calls, request.tools)
    /\ localResult.confidence >= Threshold - config.margin

\* States the router can be in once the local result was not accepted.
AfterRejection == {"CLOUD_FALLBACK", "ACCEPT_CLOUD", "FAILED"}

LocalIsFinal ==
    /\ state = "ACCEPT_LOCAL"
    /\ response.kind = "content"
    /\ response.source = "local"

----------------------------------------------------------------------------
(* C1: with forceLocal = true neither classifier is ever consulted, the    *)
(* router never is in CLASSIFY or CLOUD_DIRECT, and the first backend      *)
(* attempted is the local one.                                             *)
C1_ForceLocalSkipsClassifiers ==
    request.forceLocal =>
        /\ consulted = <<>>
        /\ state \notin {"CLASSIFY", "CLOUD_DIRECT"}
        /\ state \notin {"START", "REJECTED"} => decision.reason = "force_local"
        /\ attempts # <<>> => attempts[1] = "local"

\* A forced-local request whose local attempt ran and was followed by the cloud.
C1_Witness ==
    /\ request.forceLocal
    /\ attempts = <<"local", "cloud">>

C3_EmptyCallSetNeverAccepted ==
    (LocalAnswered /\ localResult.calls = <<>>)
    => /\ state \in AfterRejection
       /\ ~LocalIsFinal

\* Confidence 1.0, leniency on, empty call set: rejected.
C3_Witness ==
    /\ LocalAnswered
    /\ localResult.calls = <<>>
    /\ localResult.confidence = 100
    /\ config.leniency
    /\ state = "CLOUD_FALLBACK"

(* C4: a local result whose call set is non-empty but names only tools     *)
(* that are not in the request's tool set is never accepted as the final   *)
(* response, whatever its confidence.                                      *)
C4_AllInvalidNeverAccepted ==
    ( /\ LocalAnswered
      /\ localResult.calls # <<>>
      /\ \A i \in 1..Len(localResult.calls) : localResult.calls[i] \notin request.tools )
    => ~LocalIsFinal

(* C5: with leniency disabled a successful local attempt is accepted       *)
(* (final response, source = local) if and only if its call set is         *)
(* non-empty and confidence >= requiredThreshold(toolCount), the boundary  *)
(* included; otherwise the router proceeds to CLOUD_FALLBACK.              *)
C5_AcceptIffThresholdMet ==
    (~config.leniency /\ LocalAnswered)
    => IF localResult.calls # <<>> /\ localResult.confidence >= Threshold
       THEN LocalIsFinal /\ metrics.source = "local"
       ELSE state \in AfterRejection

\* Leniency off, confidence exactly the threshold, accepted.
C5_Witness ==
    /\ ~config.leniency
    /\ LocalAnswered
    /\ localResult.confidence = Threshold
    /\ LocalIsFinal

(* C6: a local result with confidence requiredThreshold - 0.05 and an      *)
(* effective call set is accepted if and only if leniency is enabled with  *)
(* a margin >= 0.05; and a result below the threshold whose call set is    *)
(* not effective is never accepted.                                        *)
C6_LeniencyBoundary ==
    /\ ( /\ LocalAnswered
         /\ localResult.confidence = Threshold - 5
         /\ IsEffective(localResult.calls, request.tools) )
       => ( LocalIsFinal <=> (config.leniency /\ config.margin >= 5) )
    /\ ( /\ LocalAnswered
         /\ localResult.confidence < Threshold
         /\ ~IsEffective(localResult.calls, request.tools) )
       => state \in AfterRejection

\* Leniency on with margin exactly 0.05, confidence threshold - 0.05, accepted.
C6_Witness ==
    /\ LocalAnswered
    /\ localResult.confidence = Threshold - 5
    /\ IsEffective(localResult.calls, request.tools)
    /\ config.leniency
    /\ config.margin = 5
    /\ LocalIsFinal

(* C7: requiredThreshold is monotonically non-decreasing in the tool       *)
(* count, and every value lies strictly between 0 and 1, for each          *)
(* documented tier table.                                                  *)
C7_ThresholdMonotone ==
    \A m, n \in 1..(MaxTools + 1) :
        /\ m <= n => requiredThreshold(m, config) <= requiredThreshold(n, config)
        /\ 0 < requiredThreshold(n, config)
        /\ requiredThreshold(n, config) < 100

\* A 3-tool request decided at its own tier, which differs from the 1-tool tier.
C7_Witness ==
    /\ ToolCount = 3
    /\ LocalAnswered
    /\ localResult.confidence = config.tiers[3]
    /\ config.tiers[1] < config.tiers[3]
    /\ LocalIsFinal

(* C8: classifyComplexity returns true (bypass) if and only if the word    *)
(* count exceeds the length threshold, or the text contains a compound     *)
(* marker and the tool count exceeds the fan-out threshold; consulting it  *)
(* changes nothing but the routing decision.                               *)
C8_ComplexityDecision ==
    /\ [](consulted # <<>> =>
            ( decision.reason = "complexity"
              <=> \/ Len(request.text) > config.cutoffs[1]
                  \/ /\ \E i \in 1..Len(request.text) :
                            request.text[i] \in config.markers
                     /\ ToolCount > config.cutoffs[2] ))
    /\ [][state = "CLASSIFY" =>
            UNCHANGED <<config, request, attempts, localResult, cloudResult,
                        response, metrics>>]_vars

\* A text of exactly the length threshold with a marker and 2 tools: bypassed
\* by the compound rule only when the fan-out threshold is 1.
C8_Witness ==
    /\ consulted # <<>>
    /\ Len(request.text) = config.cutoffs[1]
    /\ ToolCount = 2
    /\ config.cutoffs[2] = 1
    /\ decision.reason = "complexity"

(* C9: with forceLocal = false, if either classifier returns bypass the    *)
(* router goes to CLOUD_DIRECT and the local backend is never invoked; if  *)
(* neither does it goes to LOCAL_ATTEMPT.  3 tools with a 45-word text     *)
(* containing " and " is CLOUD_DIRECT; 1 tool with "turn on dnd" is        *)
(* LOCAL_ATTEMPT.                                                          *)
C9_BypassSkipsLocal ==
    (~request.forceLocal /\ consulted # <<>>)
    => /\ IF \/ classifyComplexity(request.text, ToolCount, config)
             \/ classifyDomain(request.text, config)
          THEN /\ state \in {"CLOUD_DIRECT", "ACCEPT_CLOUD", "FAILED"}
               /\ decision.path = "cloud_direct"
               /\ \A i \in 1..Len(attempts) : attempts[i] # "local"
               /\ localResult = NoValue
          ELSE /\ state \in {"LOCAL_ATTEMPT", "ACCEPT_LOCAL"} \cup AfterRejection
               /\ decision.path = "local_then_maybe_cloud"
               /\ attempts # <<>> => attempts[1] = "local"
       /\ (request.text = Filler(45, "and") /\ ToolCount = 3)
          => decision.path = "cloud_direct"
       /\ (request.text = <<"turn", "on", "dnd">> /\ ToolCount = 1)
          => decision.path = "local_then_maybe_cloud"

\* The 45-word compound request with 3 tools, answered by the cloud alone.
C9_Witness ==
    /\ ~request.forceLocal
    /\ request.text = Filler(45, "and")
    /\ ToolCount = 3
    /\ attempts = <<"cloud">>
    /\ state = "ACCEPT_CLOUD"

(* C10: when the cloud backend returns BackendError after the local        *)
(* attempt was rejected by the Confidence Policy, the final state is       *)
(* FAILED, the response is BackendUnavailable, and the metrics still carry *)
(* the latency and the confidence of the rejected local attempt.           *)
C10_FailureKeepsLocalAudit ==
    (LocalAnswered /\ cloudResult.kind = "error")
    => /\ state = "FAILED"
       /\ response = [kind |-> "error", error |-> "BackendUnavailable"]
       /\ metrics.local.kind = "ok"
       /\ metrics.local.confidence = localResult.confidence
       /\ metrics.local.latency_ms = localResult.latency_ms

\* A rejected local result of the longest latency, then a cloud backend error.
C10_Witness ==
    /\ LocalAnswered
    /\ localResult.latency_ms = MaxLatency
    /\ localResult.confidence > 0
    /\ cloudResult.kind = "error"
    /\ state = "FAILED"

----------------------------------------------------------------------------
(* C11: a cloud attempt that fails, by backend error or by deadline expiry, *)
(* ends the request in FAILED with BackendUnavailable and no content,       *)
(* whichever cloud state made it; the cloud attempt is the last attempt and *)
(* a local result is never the response.                                    *)
C11_CloudFailureIsFatal ==
    cloudResult.kind \in {"error", "timeout"}
    => /\ state = "FAILED"
       /\ response = [kind |-> "error", error |-> "BackendUnavailable"]
       /\ metrics.source = "none"
       /\ attempts \in {<<"cloud">>, <<"local", "cloud">>}
       /\ (decision.path = "cloud_direct") <=> (attempts = <<"cloud">>)

\* The cloud deadline expires after a local result with calls was rejected.
C11_Witness ==
    /\ LocalAnswered
    /\ localResult.calls # <<>>
    /\ cloudResult.kind = "timeout"
    /\ state = "FAILED"

----------------------------------------------------------------------------
(* C12: a local attempt that times out or returns a backend error is never  *)
(* reported as an error and never repeated; the router goes on to exactly   *)
(* one cloud fallback attempt and that attempt alone decides the outcome.   *)
C12_LocalFailureFallsForward ==
    localResult.kind \in {"timeout", "error"}
    => /\ state \in AfterRejection
       /\ state = "CLOUD_FALLBACK"
          => /\ attempts = <<"local">>
             /\ cloudResult = NoValue
             /\ response = NoValue
       /\ state # "CLOUD_FALLBACK" => attempts = <<"local", "cloud">>
       /\ (state = "ACCEPT_CLOUD") <=> (cloudResult.kind = "ok")
       /\ (state = "FAILED") <=> (cloudResult.kind \in {"error", "timeout"})
       /\ state = "ACCEPT_CLOUD"
          => response = [kind |-> "content", source |-> "cloud",
                         calls |-> cloudResult.calls]

\* The local backend returned an error and the cloud answered with a call.
C12_Witness ==
    /\ localResult.kind = "error"
    /\ cloudResult.kind = "ok"
    /\ cloudResult.calls # <<>>
    /\ state = "ACCEPT_CLOUD"

----------------------------------------------------------------------------
(* C13: in a successful terminal state metrics.source names the backend     *)
(* whose output is the response: local iff ACCEPT_LOCAL, cloud iff          *)
(* ACCEPT_CLOUD; after both attempts the content is the cloud's.            *)
C13_SourceNamesTheBackend ==
    /\ state \in {"ACCEPT_LOCAL", "ACCEPT_CLOUD"}
       => /\ (metrics.source = "local") <=> (state = "ACCEPT_LOCAL")
          /\ (metrics.source = "cloud") <=> (state = "ACCEPT_CLOUD")
          /\ response.kind = "content"
          /\ response.source = metrics.source
    /\ state = "ACCEPT_LOCAL"
       => /\ response.calls = localResult.calls
          /\ cloudResult = NoValue
    /\ state = "ACCEPT_CLOUD" => response.calls = cloudResult.calls

\* Both backends answered, with different call sets, and the cloud's is kept.
C13_Witness ==
    /\ state = "ACCEPT_CLOUD"
    /\ LocalAnswered
    /\ localResult.calls # <<>>
    /\ cloudResult.calls # localResult.calls
    /\ attempts = <<"local", "cloud">>

----------------------------------------------------------------------------
(* C14: after a failed or rejected local attempt the reported latency of    *)
(* the cloud answer is local + cloud in the default accounting mode and the *)
(* cloud's alone in the cloud-only mode; with a single attempt it is that   *)
(* attempt's latency.                                                       *)
C14_LatencyAccounting ==
    /\ state = "ACCEPT_LOCAL" => metrics.latency_ms = localResult.latency_ms
    /\ (state = "ACCEPT_CLOUD" /\ localResult = NoValue)
       => metrics.latency_ms = cloudResult.latency_ms
    /\ (state = "ACCEPT_CLOUD" /\ localResult # NoValue)
       => metrics.latency_ms =
              IF config.latencyMode = "cloud_only"
              THEN cloudResult.latency_ms
              ELSE localResult.latency_ms + cloudResult.latency_ms

\* Cloud-only accounting after a local timeout.
C14_Witness ==
    /\ config.latencyMode = "cloud_only"
    /\ localResult.kind = "timeout"
    /\ state = "ACCEPT_CLOUD"
    /\ metrics.latency_ms = cloudResult.latency_ms

----------------------------------------------------------------------------
(* The decision and the terminal state as functions of the request, the     *)
(* configuration and the backend results.                                   *)
DecisionOf(req, cfg) ==
    IF req.forceLocal
    THEN [kind |-> "decision", path |-> "local_then_maybe_cloud",
          reason |-> "force_local"]
    ELSE IF classifyComplexity(req.text, Cardinality(req.tools), cfg)
    THEN [kind |-> "decision", path |-> "cloud_direct", reason |-> "complexity"]
    ELSE IF classifyDomain(req.text, cfg)
    THEN [kind |-> "decision", path |-> "cloud_direct", reason |-> "domain"]
    ELSE [kind |-> "decision", path |-> "local_then_maybe_cloud",
          reason |-> "no_bypass"]

TerminalOf(req, cfg, local, cloud) ==
    IF local.kind = "ok" /\ AcceptLocal(local, req.tools, cfg)
    THEN "ACCEPT_LOCAL"
    ELSE IF cloud.kind = "ok" THEN "ACCEPT_CLOUD" ELSE "FAILED"

(* C15: routing is deterministic: the RoutingDecision and its reason code   *)
(* are determined by the request and the configuration, and the terminal    *)
(* state by these and the backend results.                                  *)
C15_RoutingIsDeterministic ==
    /\ decision # NoValue => decision = DecisionOf(request, config)
    /\ state \in {"ACCEPT_LOCAL", "ACCEPT_CLOUD", "FAILED"}
       => state = TerminalOf(request, config, localResult, cloudResult)

\* A cognition keyword sent the request to the cloud, which answered.
C15_Witness ==
    /\ decision # NoValue
    /\ decision.reason = "domain"
    /\ state = "ACCEPT_CLOUD"

----------------------------------------------------------------------------
(* C16: within one request the local backend is invoked at most once and    *)
(* the cloud backend at most once, and the cloud is never followed by the   *)
(* local backend.                                                           *)
C16_OneAttemptPerTier ==
    /\ attempts \in {<<>>, <<"local">>, <<"cloud">>, <<"local", "cloud">>}
    /\ (localResult # NoValue) <=> (Len(attempts) > 0 /\ attempts[1] = "local")
    /\ (cloudResult # NoValue) <=> (Len(attempts) > 0
                                    /\ attempts[Len(attempts)] = "cloud")

\* The local backend failed and the cloud backend failed after it.
C16_Witness ==
    /\ attempts = <<"local", "cloud">>
    /\ localResult.kind = "error"
    /\ cloudResult.kind = "error"

----------------------------------------------------------------------------
(* C17: every request the router takes up eventually reaches ACCEPT_LOCAL,  *)
(* ACCEPT_CLOUD or FAILED, also when a backend never answers, because each  *)
(* attempt ends at its deadline at the latest.                              *)
C17_EveryRequestTerminates ==
    IsWellFormed(request)
    => <>(state \in {"ACCEPT_LOCAL", "ACCEPT_CLOUD", "FAILED"})

\* Neither backend answered: both deadlines expired.
C17_Witness ==
    /\ localResult.kind = "timeout"
    /\ cloudResult.kind = "timeout"
    /\ state = "FAILED"

----------------------------------------------------------------------------
----------------------------------------------------------------------------
(* C19: a cloud attempt that succeeds is always accepted: ACCEPT_CLOUD with *)
(* confidence 1.0, whatever the cloud's call set and the local confidence.  *)
C19_CloudSuccessAlwaysAccepted ==
    cloudResult.kind = "ok"
    => /\ state = "ACCEPT_CLOUD"
       /\ metrics.confidence = 100
       /\ response = [kind |-> "content", source |-> "cloud",
                      calls |-> cloudResult.calls]

\* An empty cloud call set after a local result of confidence 0.
C19_Witness ==
    /\ cloudResult.kind = "ok"
    /\ cloudResult.calls = <<>>
    /\ LocalAnswered
    /\ localResult.confidence = 0
    /\ state = "ACCEPT_CLOUD"

----------------------------------------------------------------------------
(* C20: no conversation state is kept between calls: what the router is     *)
(* handed for a turn is that turn's own message and nothing of an earlier   *)
(* request.                                                                 *)
C20_NoRetainedHistory ==
    handed.kind = "messages"
    => handed.messages = <<[role |-> "user", content |-> handed.current]>>

----------------------------------------------------------------------------
(* C21: concurrent requests are independent: whatever the order in which    *)
(* the requests in flight are handled, each one is routed on its own        *)
(* message alone, as it would be when processed alone.                      *)
C21_RequestsIndependent ==
    \A c \in Clients :
        inflight[c].kind = "routed"
        => inflight[c].messages =
               <<[role |-> "user", content |-> inflight[c].message]>>

----------------------------------------------------------------------------
(* C22: once the client of an in-flight request has gone away, no backend   *)
(* call of that request is outstanding and no response is produced for it.  *)
C22_CancelAbortsBackendCall ==
    ~proxy.connected
    => /\ proxy.pc # "fetching"
       /\ proxy.response = NoValue

----------------------------------------------------------------------------
(* The transitions of the router's state machine. *)
RouterTransitions ==
    { <<"START", "LOCAL_ATTEMPT">>, <<"START", "CLASSIFY">>,
      <<"CLASSIFY", "CLOUD_DIRECT">>, <<"CLASSIFY", "LOCAL_ATTEMPT">>,
      <<"LOCAL_ATTEMPT", "ACCEPT_LOCAL">>, <<"LOCAL_ATTEMPT", "CLOUD_FALLBACK">>,
      <<"CLOUD_FALLBACK", "ACCEPT_CLOUD">>, <<"CLOUD_FALLBACK", "FAILED">>,
      <<"CLOUD_DIRECT", "ACCEPT_CLOUD">>, <<"CLOUD_DIRECT", "FAILED">> }

(* C23: every step of the router is one of the listed transitions; no step  *)
(* leaves ACCEPT_LOCAL, ACCEPT_CLOUD or FAILED, and ACCEPT_LOCAL is entered *)
(* from LOCAL_ATTEMPT only.  The one other step is the rejection of a       *)
(* malformed request before the router runs.                                *)
C23_OnlyListedTransitions ==
    [][ /\ \/ <<state, state'>> \in RouterTransitions
           \/ /\ ~IsWellFormed(request)
              /\ state = "START"
              /\ state' = "REJECTED"
        /\ state \notin {"ACCEPT_LOCAL", "ACCEPT_CLOUD", "FAILED"}
        /\ state' = "ACCEPT_LOCAL" => state = "LOCAL_ATTEMPT" ]_vars

\* The longest way to a local answer: START, CLASSIFY, LOCAL_ATTEMPT, ACCEPT_LOCAL.
C23_Witness ==
    /\ state = "ACCEPT_LOCAL"
    /\ consulted = <<"complexity", "domain">>
    /\ attempts = <<"local">>

----------------------------------------------------------------------------
\* The "deterministic action" keywords of the Domain Classifier's second mode.
ActionKeywords == {"set", "toggle", "open", "calculate"}

(* C24: the Complexity Classifier is asked before the Domain Classifier and *)
(* the first bypass wins: the Domain Classifier is consulted only when      *)
(* forceLocal is false and Complexity did not bypass, and a Complexity      *)
(* bypass leads to CLOUD_DIRECT with reason complexity whatever keywords    *)
(* the text has.                                                            *)
C24_ComplexityBeforeDomain ==
    /\ consulted \in {<<>>, <<"complexity">>, <<"complexity", "domain">>}
    /\ consulted # <<>> => ~request.forceLocal
    /\ consulted = <<"complexity", "domain">>
       => ~classifyComplexity(request.text, ToolCount, config)
    /\ (consulted # <<>> /\ classifyComplexity(request.text, ToolCount, config))
       => /\ consulted = <<"complexity">>
          /\ decision = [kind |-> "decision", path |-> "cloud_direct",
                         reason |-> "complexity"]
          /\ state \in {"CLOUD_DIRECT", "ACCEPT_CLOUD", "FAILED"}

\* "set ... and ..." with several tools: an action keyword, and a compound bypass.
C24_Witness ==
    /\ Contains(request.text, ActionKeywords)
    /\ classifyComplexity(request.text, ToolCount, config)
    /\ state = "CLOUD_DIRECT"
    /\ decision.reason = "complexity"

----------------------------------------------------------------------------
(* C25: a local result that arrives after the local deadline has expired is *)
(* discarded: it never becomes the response, never makes the source local   *)
(* and never changes the terminal state, whether it comes before or after   *)
(* the cloud attempt.                                                       *)
C25_LateResultDiscarded ==
    late # NoValue
    => /\ localResult.kind = "timeout"
       /\ state \in AfterRejection
       /\ state = "CLOUD_FALLBACK"
          => /\ response = NoValue
             /\ metrics = NoValue
       /\ state # "CLOUD_FALLBACK"
          => /\ state = TerminalOf(request, config, localResult, cloudResult)
             /\ metrics.source = IF state = "ACCEPT_CLOUD" THEN "cloud" ELSE "none"
             /\ metrics.local.kind = "timeout"
             /\ response = IF state = "ACCEPT_CLOUD"
                           THEN [kind |-> "content", source |-> "cloud",
                                 calls |-> cloudResult.calls]
                           ELSE [kind |-> "error", error |-> "BackendUnavailable"]

\* A late local result that the policy would have accepted, and a cloud failure.
C25_Witness ==
    /\ late # NoValue
    /\ AcceptLocal(late, request.tools, config)
    /\ state = "FAILED"

----------------------------------------------------------------------------
(* C26: the recorded data of a finished request names the path and its      *)
(* reason and keeps rejections apart from backend failures: a rejected      *)
(* local answer is recorded as an answer with its confidence and latency, a *)
(* failed local call as a timeout or error, a classifier bypass as no local *)
(* attempt at all.                                                          *)
C26_RejectionsAndFailuresApart ==
    state \in {"ACCEPT_LOCAL", "ACCEPT_CLOUD", "FAILED"}
    => /\ decision = DecisionOf(request, config)
       /\ (decision.path = "cloud_direct") <=> (metrics.local = NoValue)
       /\ metrics.local = NoValue => decision.reason \in {"complexity", "domain"}
       /\ LocalAnswered
          => /\ metrics.local.kind = "ok"
             /\ metrics.local.confidence = localResult.confidence
             /\ metrics.local.latency_ms = localResult.latency_ms
       /\ localResult.kind \in {"timeout", "error"}
          => /\ metrics.local.kind = localResult.kind
             /\ metrics.local.latency_ms = localResult.latency_ms

\* An empty call set at full confidence was rejected; the cloud answered.
C26_Witness ==
    /\ state = "ACCEPT_CLOUD"
    /\ LocalAnswered
    /\ localResult.calls = <<>>
    /\ localResult.confidence = 100
    /\ metrics.local.kind = "ok"

----------------------------------------------------------------------------
(* Whole-word and substring occurrences of a keyword in a text. *)
IsWordChar(c) == c \notin {" ", "[", "]"}

WholeWordAt(text, k, i) ==
    /\ MatchesAt(text, k, i)
    /\ i = 1 \/ ~IsWordChar(text[i - 1])
    /\ i + Len(k) > Len(text) \/ ~IsWordChar(text[i + Len(k)])

Occurs(text, k) == \E i \in 1..Len(text) : MatchesAt(text, k, i)

(* C27: scrub() replaces whole-word matches only: a text in which no        *)
(* keyword occurs as a whole word comes back unchanged.                     *)
C27_WholeWordOnly ==
    ( /\ scrubbed # NoValue
      /\ \A n \in 1..Len(scrubbed.keywords) :
            \A i \in 1..Len(scrubbed.text) :
                ~( /\ ~IsBlank(scrubbed.keywords[n])
                   /\ WholeWordAt(scrubbed.text, scrubbed.keywords[n], i) ) )
    => scrubbed.out = scrubbed.text

----------------------------------------------------------------------------
(* C28: the output of scrub() contains no occurrence, in any case, of any   *)
(* non-blank keyword of the list.                                           *)
C28_NoKeywordLeft ==
    scrubbed # NoValue
    => \A n \in 1..Len(scrubbed.keywords) :
           ~IsBlank(scrubbed.keywords[n])
           => ~Occurs(scrubbed.out, scrubbed.keywords[n])

----------------------------------------------------------------------------
(* C29: a body that is not parsable JSON is answered with status 400 and    *)
(* metrics = null, and the backend is never contacted for it.               *)
C29_UnparsableBodyRejected ==
    (proxy.pc # "idle" /\ proxy.raw.kind = "garbage")
    => /\ proxy.pc = "done"
       /\ proxy.response.status = 400
       /\ proxy.response.body.metrics = "null"
       /\ proxy.upstream = NoValue
       /\ proxy.reply = NoValue

\* A body that is no JSON has been answered.
C29_Witness ==
    /\ proxy.pc = "done"
    /\ proxy.raw.kind = "garbage"
    /\ proxy.response = InvalidJsonResponse

----------------------------------------------------------------------------
(* C30: the proxy always ends with a response: 502 with metrics = null and  *)
(* files_touched = [] when the fetch fails or the reply is not JSON, else   *)
(* the backend's JSON body under the backend's own status code.             *)
C30_ProxyAlwaysAnswers ==
    /\ proxy.pc \in {"idle", "fetching", "done"}
    /\ proxy.pc = "done" => proxy.response # NoValue
    /\ (proxy.pc = "done" /\ proxy.reply # NoValue)
       => IF proxy.reply.kind = "network_error" \/ ~proxy.reply.json
          THEN /\ proxy.response.status = 502
               /\ proxy.response.body.metrics = "null"
               /\ proxy.response.body.files_touched = <<>>
          ELSE /\ proxy.response.status = proxy.reply.status
               /\ proxy.response.body = proxy.reply.data

\* The backend answered 500 with a JSON body: passed on as it is.
C30_Witness ==
    /\ proxy.pc = "done"
    /\ proxy.reply.kind = "reply"
    /\ proxy.reply.json
    /\ proxy.reply.status = 500
    /\ proxy.response.status = 500

----------------------------------------------------------------------------
(* C31: every library proxy handler ends by returning a response, also when *)
(* the backend is unreachable or answers with a body that is not JSON; an   *)
(* unparsable request body is answered 400 without a call to the backend.   *)
C31_LibraryAlwaysAnswers ==
    /\ libraryProxy.pc \in {"idle", "fetching", "done"}
    /\ libraryProxy.pc = "done" => libraryProxy.response # NoValue
    /\ (libraryProxy.pc # "idle" /\ libraryProxy.raw.kind = "garbage")
       => /\ libraryProxy.pc = "done"
          /\ libraryProxy.response.status = 400
          /\ libraryProxy.upstream = NoValue

----------------------------------------------------------------------------
UserMessages(messages) ==
    Cardinality({ i \in 1..Len(messages) : messages[i].role = "user" })

(* C32: the chat page has at most one chat request outstanding: while       *)
(* loading is true no request is sent and no user message is appended, the  *)
(* Send, Clear and input controls are disabled, and no empty or             *)
(* whitespace-only text is ever sent.                                       *)
C32_OneRequestOutstanding ==
    /\ []( /\ Len(page.pending) <= 1
           /\ page.loading <=> page.pending # <<>>
           /\ page.loading
              => /\ ClearDisabled
                 /\ InputDisabled
                 /\ \A input \in PageInputs : SendDisabled(input)
           /\ \A input \in PageInputs :
                 (\A i \in 1..Len(input) : input[i] = " ") => SendDisabled(input)
           /\ \A i \in 1..Len(page.pending) :
                 /\ page.pending[i].text # <<>>
                 /\ \E j \in 1..Len(page.pending[i].text) :
                        page.pending[i].text[j] # " " )
    /\ [][ page.loading
           => /\ Len(page'.pending) <= Len(page.pending)
              /\ UserMessages(page'.messages) <= UserMessages(page.messages) ]_vars

\* The second request of the page is outstanding, alone.
C32_Witness ==
    /\ page.loading
    /\ page.started = 2
    /\ Len(page.pending) = 1
    /\ page.pending[1].kind = "submit"

----------------------------------------------------------------------------
(* C33: when a submit or a clear has ended in a failure (network error,     *)
(* body that is not JSON, status outside 2xx), loading is false again, and  *)
(* the messages are the earlier ones plus exactly one assistant message.    *)
C33_FailureKeepsMessages ==
    ( /\ page.last # NoValue
      /\ \/ page.last.outcome.kind = "network_error"
         \/ ~page.last.outcome.json
         \/ page.last.outcome.status \notin 200..299 )
    => /\ ~page.loading
       /\ Len(page.messages) = Len(page.last.before) + 1
       /\ SubSeq(page.messages, 1, Len(page.last.before)) = page.last.before
       /\ page.messages[Len(page.messages)].role = "assistant"

----------------------------------------------------------------------------
----------------------------------------------------------------------------
(* C35: handleSetRootByPath issues the index request only after a PUT that  *)
(* was HTTP ok with a body whose ok is not false; after a PUT that failed   *)
(* or threw, no index and no status request is issued and validateResult is *)
(* ok = false with an error message.                                        *)
C35_IndexOnlyAfterPut ==
    /\ setRoot.issued \in { <<>>, <<PutRequest>>, <<PutRequest, IndexRequest>>,
                            <<PutRequest, IndexRequest, StatusRequest>> }
    /\ Len(setRoot.issued) >= 2
       => /\ setRoot.put.kind = "reply"
          /\ setRoot.put.status \in 200..299
          /\ ~( /\ setRoot.put.json
                /\ "ok" \in DOMAIN setRoot.put.data
                /\ setRoot.put.data.ok = FALSE )
    /\ ( /\ setRoot.put # NoValue
         /\ \/ setRoot.put.kind = "network_error"
            \/ setRoot.put.status \notin 200..299
            \/ /\ setRoot.put.json
               /\ "ok" \in DOMAIN setRoot.put.data
               /\ setRoot.put.data.ok = FALSE )
       => /\ setRoot.pc = "done"
          /\ setRoot.issued = <<PutRequest>>
          /\ setRoot.validateResult.ok = FALSE
          /\ setRoot.validateResult.error # ""

\* The PUT was answered 200 with {ok: false, error}: nothing else is requested.
C35_Witness ==
    /\ setRoot.pc = "done"
    /\ setRoot.put.kind = "reply"
    /\ setRoot.put.status = 200
    /\ setRoot.put.json
    /\ setRoot.put.data = [ok |-> FALSE, error |-> "Not a directory"]
    /\ setRoot.validateResult = [ok |-> FALSE, error |-> "Not a directory"]

----------------------------------------------------------------------------
(* C36: the files-touched list has one entry per successful (2xx, not       *)
(* clear) chat answer since the conversation was last cleared, and its i-th *)
(* entry has requestIndex i; a failed request adds none.                    *)
C36_FilesTouchedNumbered ==
    /\ Len(page.filesTouched) = page.successes
    /\ \A i \in 1..Len(page.filesTouched) : page.filesTouched[i].requestIndex = i

\* Three requests, two of them answered with success and one failed.
C36_Witness ==
    /\ page.started = 3
    /\ page.pending = <<>>
    /\ Len(page.filesTouched) = 2
    /\ page.filesTouched[2].requestIndex = 2

====
